---- MODULE Spec2Model ----
(***************************************************************************)
(* Flocculant preparation assistant (babjam/BayerProcessAgent).            *)
(*                                                                         *)
(* Two programs are modelled:                                              *)
(*   - src/mode_flocculant_agent.py: a Streamlit script whose state lives  *)
(*     in st.session_state; every user interaction re-runs main() from top *)
(*     to bottom (Spec);                                                   *)
(*   - src/app.py: the first, stateless variant, which recomputes every    *)
(*     quantity from its widgets on each run (SpecApp).                    *)
(* The pure functions of both are also exercised on their own, on inputs   *)
(* the forms cannot produce (negative numbers), under SpecFn.              *)
(*                                                                         *)
(* Python floats are modelled as exact rationals <<numerator, denominator>>*)
(* in lowest terms with a positive denominator; rounding of IEEE doubles   *)
(* is outside the model.                                                   *)
(***************************************************************************)
EXTENDS Integers, Sequences, FiniteSets, TLC

VARIABLES
    session_state,     \* st.session_state of mode_flocculant_agent.py
    selected_preset,   \* state of the "Choose a standard recipe" selectbox
    last,              \* history: what the last script run did
    call,              \* SpecFn: arguments and result of a direct function call
    app                \* SpecApp: widgets and script variables of app.py

vars == <<session_state, selected_preset, last, call, app>>

----------------------------------------------------------------------------
(* Rational arithmetic standing for Python's float operators.              *)

Abs(x) == IF x < 0 THEN -x ELSE x

RECURSIVE GCD(_, _)
GCD(a, b) == IF b = 0 THEN a ELSE GCD(b, a % b)

\* The rational n/d (d # 0) in lowest terms, denominator positive.
Rat(n, d) ==
    LET s == IF d < 0 THEN -1 ELSE 1
        g == GCD(Abs(n), Abs(d))
    IN  <<(s * n) \div g, (s * d) \div g>>

\* Sums and comparisons go through the least common denominator, and
\* products cancel crosswise first, so intermediate integers stay small.
RAdd(x, y) ==
    LET g == GCD(x[2], y[2])
    IN  Rat(x[1] * (y[2] \div g) + y[1] * (x[2] \div g), (x[2] \div g) * y[2])
RNeg(x) == <<-x[1], x[2]>>
RSub(x, y) == RAdd(x, RNeg(y))
RMul(x, y) ==
    LET g1 == GCD(Abs(x[1]), y[2])
        g2 == GCD(Abs(y[1]), x[2])
    IN  Rat((x[1] \div g1) * (y[1] \div g2), (x[2] \div g2) * (y[2] \div g1))
\* x / y; the caller guards y # 0 (Python raises ZeroDivisionError).
RDiv(x, y) == RMul(x, Rat(y[2], y[1]))
RLt(x, y) ==
    LET g == GCD(x[2], y[2])
    IN  x[1] * (y[2] \div g) < y[1] * (x[2] \div g)
RLe(x, y) == x = y \/ RLt(x, y)
RGt(x, y) == RLt(y, x)
RGe(x, y) == RLe(y, x)

Zero == Rat(0, 1)
Hundred == Rat(100, 1)

----------------------------------------------------------------------------
(* Program constants.                                                      *)

\* "if amount > 10000" in validate_inputs.
MAX_AMOUNT == 10000

DEFAULT_VALUES ==
    [stock_amount |-> Rat(50, 1), stock_conc |-> Rat(1, 1),
     final_amount |-> Rat(200, 1), final_conc |-> Rat(1, 10)]

\* Keyed by position in the selectbox (list(SOP_PRESETS.keys())).
SOP_PRESETS ==
    << [amount |-> Rat(200, 1), conc |-> Rat(1, 1)],
       [amount |-> Rat(200, 1), conc |-> Rat(3, 10)],
       [amount |-> Rat(200, 1), conc |-> Rat(1, 10)] >>

UNIT_CONFIGS ==
    ("Weight (g) / % w/w" :> [unit |-> "g", conc_unit |-> "% w/w"]) @@
    ("Volume (mL) / % v/v" :> [unit |-> "mL", conc_unit |-> "% v/v"])

Modes == {"Manual Input", "SOP-Driven"}
UnitTypes == DOMAIN UNIT_CONFIGS
StepNames == {"Stock Solution", "Final Dilution"}

----------------------------------------------------------------------------
(* Bounds: how many of the candidate input values are enumerated.          *)

NumAmounts == 5
NumConcs == 5

AmountCandidates ==
    << Rat(50, 1), Rat(200, 1), Rat(20, 1), Rat(0, 1), Rat(10001, 1),
       Rat(10000, 1), Rat(100, 1) >>
ConcCandidates ==
    << Rat(1, 1), Rat(1, 10), Rat(1, 2), Rat(0, 1), Rat(100, 1),
       Rat(3, 10), Rat(999, 10) >>

Prefix(seq, n) == {seq[i] : i \in 1..(IF n < Len(seq) THEN n ELSE Len(seq))}

\* What a number_input with min_value=0.0 can deliver.
AmountInputs == Prefix(AmountCandidates, NumAmounts)
ConcInputs == Prefix(ConcCandidates, NumConcs)

\* Direct calls may also pass negative numbers.
FnAmounts == AmountInputs \cup {Rat(-5, 1)}
FnConcs == ConcInputs \cup {Rat(-1, 1)}

----------------------------------------------------------------------------
(* Pure functions.                                                         *)

\* mode_flocculant_agent.py: the ValueError raised for non-positive
\* arguments is caught inside the function, which then returns 0.0, 0.0.
\* Faulty variant: the solvent taken as amount - fraction.
calculate_solution_SolventFromFraction(amount, concentration) ==
    IF RLe(amount, Zero) \/ RLe(concentration, Zero)
    THEN <<Zero, Zero>>
    ELSE LET fraction == RDiv(concentration, Hundred)
             solute_amount == RMul(amount, fraction)
             solvent_amount == RSub(amount, fraction)
         IN  <<solute_amount, solvent_amount>>

\* Faulty variant: the concentration taken from the session when it has one.
calculate_solution_ReadsSession(amount, concentration) ==
    LET conc == IF "stock_conc" \in DOMAIN session_state
                THEN session_state.stock_conc ELSE concentration
    IN  IF RLe(amount, Zero) \/ RLe(conc, Zero)
        THEN <<Zero, Zero>>
        ELSE LET fraction == RDiv(conc, Hundred)
                 solute_amount == RMul(amount, fraction)
                 solvent_amount == RSub(amount, solute_amount)
             IN  <<solute_amount, solvent_amount>>

calculate_solution(amount, concentration) ==
    IF RLe(amount, Zero) \/ RLe(concentration, Zero)
    THEN <<Zero, Zero>>
    ELSE LET fraction == RDiv(concentration, Hundred)
             solute_amount == RMul(amount, fraction)
             solvent_amount == RSub(amount, solute_amount)
         IN  <<solute_amount, solvent_amount>>

\* app.py: no argument check.
app_calculate_solution(target_amount, concentration) ==
    LET frac == RDiv(concentration, Hundred)
        emulsion == RMul(target_amount, frac)
        water == RSub(target_amount, emulsion)
    IN  <<emulsion, water>>

\* Messages are <<prefix, text>>: f"{step_name}: text", or the bare text.
MsgAmountPositive(step_name) == <<step_name, "Amount must be greater than 0">>
MsgConcPositive(step_name) == <<step_name, "Concentration must be greater than 0">>
MsgConcBelow100(step_name) == <<step_name, "Concentration must be less than 100%">>
MsgFinalBelowStock == <<"", "Final concentration should be lower than stock concentration">>
MsgAmountTooLarge(step_name) == <<step_name, "Amount seems unreasonably large (>10000)">>

\* errors.append(m) when cond holds.
AppendIf(errors, cond, m) == IF cond THEN Append(errors, m) ELSE errors

\* Faulty variant: the checks chained with elif, so only the first violation is kept.
validate_inputs_ShortCircuit(amount, concentration, step_name, ss) ==
    IF RLe(amount, Zero) THEN <<MsgAmountPositive(step_name)>>
    ELSE IF RLe(concentration, Zero) THEN <<MsgConcPositive(step_name)>>
    ELSE IF RGe(concentration, Hundred) THEN <<MsgConcBelow100(step_name)>>
    ELSE IF /\ step_name = "Final Dilution"
            /\ "stock_conc" \in DOMAIN ss
            /\ RGe(concentration, ss.stock_conc) THEN <<MsgFinalBelowStock>>
    ELSE IF RGt(amount, Rat(MAX_AMOUNT, 1)) THEN <<MsgAmountTooLarge(step_name)>>
    ELSE <<>>

\* Faulty variant: the cross-step check made in every stage.
validate_inputs_CrossCheckAnyStep(amount, concentration, step_name, ss) ==
    LET e1 == AppendIf(<<>>, RLe(amount, Zero), MsgAmountPositive(step_name))
        e2 == AppendIf(e1, RLe(concentration, Zero), MsgConcPositive(step_name))
        e3 == AppendIf(e2, RGe(concentration, Hundred), MsgConcBelow100(step_name))
        e4 == AppendIf(e3,
                  /\ "stock_conc" \in DOMAIN ss
                  /\ RGe(concentration, ss.stock_conc),
                  MsgFinalBelowStock)
        e5 == AppendIf(e4, RGt(amount, Rat(MAX_AMOUNT, 1)), MsgAmountTooLarge(step_name))
    IN  e5

\* Faulty variant: the cross-step check with > for >=.
validate_inputs_StrictCrossCheck(amount, concentration, step_name, ss) ==
    LET e1 == AppendIf(<<>>, RLe(amount, Zero), MsgAmountPositive(step_name))
        e2 == AppendIf(e1, RLe(concentration, Zero), MsgConcPositive(step_name))
        e3 == AppendIf(e2, RGe(concentration, Hundred), MsgConcBelow100(step_name))
        e4 == AppendIf(e3,
                  /\ step_name = "Final Dilution"
                  /\ "stock_conc" \in DOMAIN ss
                  /\ RGt(concentration, ss.stock_conc),
                  MsgFinalBelowStock)
        e5 == AppendIf(e4, RGt(amount, Rat(MAX_AMOUNT, 1)), MsgAmountTooLarge(step_name))
    IN  e5

\* Faulty variant: the upper concentration check with > for >=.
validate_inputs_Allows100(amount, concentration, step_name, ss) ==
    LET e1 == AppendIf(<<>>, RLe(amount, Zero), MsgAmountPositive(step_name))
        e2 == AppendIf(e1, RLe(concentration, Zero), MsgConcPositive(step_name))
        e3 == AppendIf(e2, RGt(concentration, Hundred), MsgConcBelow100(step_name))
        e4 == AppendIf(e3,
                  /\ step_name = "Final Dilution"
                  /\ "stock_conc" \in DOMAIN ss
                  /\ RGe(concentration, ss.stock_conc),
                  MsgFinalBelowStock)
        e5 == AppendIf(e4, RGt(amount, Rat(MAX_AMOUNT, 1)), MsgAmountTooLarge(step_name))
    IN  e5

\* ss is st.session_state, which the function reads as a global.
validate_inputs(amount, concentration, step_name, ss) ==
    LET e1 == AppendIf(<<>>, RLe(amount, Zero), MsgAmountPositive(step_name))
        e2 == AppendIf(e1, RLe(concentration, Zero), MsgConcPositive(step_name))
        e3 == AppendIf(e2, RGe(concentration, Hundred), MsgConcBelow100(step_name))
        e4 == AppendIf(e3,
                  /\ step_name = "Final Dilution"
                  /\ "stock_conc" \in DOMAIN ss
                  /\ RGe(concentration, ss.stock_conc),
                  MsgFinalBelowStock)
        e5 == AppendIf(e4, RGt(amount, Rat(MAX_AMOUNT, 1)), MsgAmountTooLarge(step_name))
    IN  e5

----------------------------------------------------------------------------
(* The session of mode_flocculant_agent.py.                                *)

\* The Python dict {}.
EmptyDict == <<>>

\* st.session_state after init_session_state() on a fresh session.
init_session_state ==
    [mode |-> "Manual Input",
     unit_type |-> "Weight (g) / % w/w",
     step1_completed |-> FALSE,
     step2_completed |-> FALSE,
     stock_calculations |-> EmptyDict,
     dilution_calculations |-> EmptyDict,
     stock_amount |-> DEFAULT_VALUES.stock_amount,
     stock_conc |-> DEFAULT_VALUES.stock_conc,
     final_amount |-> DEFAULT_VALUES.final_amount,
     final_conc |-> DEFAULT_VALUES.final_conc]

\* Faulty variant: the stage-1 flag left as it is.
reset_calculations_KeepsStep1(ss) ==
    [ss EXCEPT !.step2_completed = FALSE,
               !.stock_calculations = EmptyDict,
               !.dilution_calculations = EmptyDict]

reset_calculations(ss) ==
    [ss EXCEPT !.step1_completed = FALSE,
               !.step2_completed = FALSE,
               !.stock_calculations = EmptyDict,
               !.dilution_calculations = EmptyDict]

get_unit_config(ss) ==
    IF ss.unit_type \in DOMAIN UNIT_CONFIGS
    THEN UNIT_CONFIGS[ss.unit_type]
    ELSE UNIT_CONFIGS["Weight (g) / % w/w"]

(* One script run.  inp holds what the widgets return in this run: a       *)
(* number_input the user did not edit returns its value= argument, which   *)
(* is the session's value at that point (None below); a button returns     *)
(* TRUE only in the run its click triggers.  A run is threaded through the *)
(* stages as r = [ss, errors, outcome, stopped, report].                   *)

None == "None"

NoInput(ss, sel) ==
    [reset_btn |-> FALSE,
     new_mode |-> ss.mode,
     new_unit_type |-> ss.unit_type,
     selected_preset |-> sel,
     new_amount |-> None,
     new_conc |-> None,
     calc_stock_btn |-> FALSE,
     new_final_amount |-> None,
     new_final_conc |-> None,
     calc_final_btn |-> FALSE,
     pdf_btn |-> FALSE,
     excel_btn |-> FALSE,
     render_ok |-> TRUE]

StartRun(ss) ==
    [ss |-> ss, errors |-> <<>>, outcome |-> "none", stopped |-> FALSE,
     report |-> <<>>]

\* value= default of a number_input unless the user edited it.
WidgetValue(edited, value) == IF edited = None THEN value ELSE edited

\* "if new_mode != st.session_state.mode"
ModeStage(r, inp) ==
    IF inp.new_mode # r.ss.mode
    THEN [r EXCEPT !.ss = reset_calculations([r.ss EXCEPT !.mode = inp.new_mode])]
    ELSE r

\* Faulty variant: the unit system switched without reset_calculations().
UnitStage_NoReset(r, inp) ==
    IF inp.new_unit_type # r.ss.unit_type
    THEN [r EXCEPT !.ss.unit_type = inp.new_unit_type]
    ELSE r

\* "if new_unit_type != st.session_state.unit_type"
UnitStage(r, inp) ==
    IF inp.new_unit_type # r.ss.unit_type
    THEN [r EXCEPT !.ss = reset_calculations([r.ss EXCEPT !.unit_type = inp.new_unit_type])]
    ELSE r

\* SOP preset selection.
SopStage(r, inp) ==
    IF r.ss.mode = "SOP-Driven"
    THEN LET preset == SOP_PRESETS[inp.selected_preset]
         IN  IF r.ss.stock_amount # preset.amount \/ r.ss.stock_conc # preset.conc
             THEN [r EXCEPT !.ss = reset_calculations(
                      [r.ss EXCEPT !.stock_amount = preset.amount,
                                   !.stock_conc = preset.conc])]
             ELSE r
    ELSE r

\* Faulty variant: a changed stock input clears the stage-1 flag only.
StockInputStage_ClearsStep1Only(r, inp) ==
    IF r.ss.mode = "Manual Input"
    THEN LET new_amount == WidgetValue(inp.new_amount, r.ss.stock_amount)
             new_conc == WidgetValue(inp.new_conc, r.ss.stock_conc)
         IN  IF new_amount # r.ss.stock_amount \/ new_conc # r.ss.stock_conc
             THEN [r EXCEPT !.ss.stock_amount = new_amount,
                            !.ss.stock_conc = new_conc,
                            !.ss.step1_completed = FALSE]
             ELSE r
    ELSE r

\* Tab 1, the two number inputs (Manual Input only).
StockInputStage(r, inp) ==
    IF r.ss.mode = "Manual Input"
    THEN LET new_amount == WidgetValue(inp.new_amount, r.ss.stock_amount)
             new_conc == WidgetValue(inp.new_conc, r.ss.stock_conc)
         IN  IF new_amount # r.ss.stock_amount \/ new_conc # r.ss.stock_conc
             THEN [r EXCEPT !.ss = reset_calculations(
                      [r.ss EXCEPT !.stock_amount = new_amount,
                                   !.stock_conc = new_conc])]
             ELSE r
    ELSE r

\* Tab 1, the else branch: the result is stored and stage 1 completes.
StockAccepted(r) ==
    LET res == calculate_solution(r.ss.stock_amount, r.ss.stock_conc)
        unit_config == get_unit_config(r.ss)
    IN  [r EXCEPT !.ss.stock_calculations =
                      [emulsion_needed |-> res[1],
                       water_needed |-> res[2],
                       stock_amount |-> r.ss.stock_amount,
                       stock_conc |-> r.ss.stock_conc,
                       unit |-> unit_config.unit,
                       conc_unit |-> unit_config.conc_unit],
                  !.ss.step1_completed = TRUE,
                  !.outcome = "accepted"]

\* Faulty variant: the errors are shown and the calculation is made all the same.
StockRejected_FallsThrough(r, errors) ==
    [StockAccepted(r) EXCEPT !.errors = errors]

\* Tab 1, the "if errors" branch.
StockRejected(r, errors) ==
    [r EXCEPT !.ss.step1_completed = FALSE,
              !.errors = errors,
              !.outcome = "invalid"]

\* Tab 1, the "Calculate Stock Solution" button.
StockCalcStage(r, inp) ==
    IF inp.calc_stock_btn
    THEN LET errors == validate_inputs(r.ss.stock_amount, r.ss.stock_conc,
                                       "Stock Solution", r.ss)
         IN  IF errors # <<>>
             THEN StockRejected(r, errors)
             ELSE StockAccepted(r)
    ELSE r

\* Faulty variant: a changed final input stored without clearing the flag.
FinalInputStage_KeepsStep2(r, inp) ==
    IF r.ss.mode = "Manual Input"
    THEN LET new_final_amount == WidgetValue(inp.new_final_amount, r.ss.final_amount)
             new_final_conc == WidgetValue(inp.new_final_conc, r.ss.final_conc)
         IN  IF new_final_amount # r.ss.final_amount \/ new_final_conc # r.ss.final_conc
             THEN [r EXCEPT !.ss.final_amount = new_final_amount,
                            !.ss.final_conc = new_final_conc]
             ELSE r
    ELSE r

\* Faulty variant: a changed final input followed by reset_calculations().
FinalInputStage_ResetsAll(r, inp) ==
    IF r.ss.mode = "Manual Input"
    THEN LET new_final_amount == WidgetValue(inp.new_final_amount, r.ss.final_amount)
             new_final_conc == WidgetValue(inp.new_final_conc, r.ss.final_conc)
         IN  IF new_final_amount # r.ss.final_amount \/ new_final_conc # r.ss.final_conc
             THEN [r EXCEPT !.ss = reset_calculations(
                      [r.ss EXCEPT !.final_amount = new_final_amount,
                                   !.final_conc = new_final_conc])]
             ELSE r
    ELSE r

\* Tab 2, the two number inputs (Manual Input only).
FinalInputStage(r, inp) ==
    IF r.ss.mode = "Manual Input"
    THEN LET new_final_amount == WidgetValue(inp.new_final_amount, r.ss.final_amount)
             new_final_conc == WidgetValue(inp.new_final_conc, r.ss.final_conc)
         IN  IF new_final_amount # r.ss.final_amount \/ new_final_conc # r.ss.final_conc
             THEN [r EXCEPT !.ss.final_amount = new_final_amount,
                            !.ss.final_conc = new_final_conc,
                            !.ss.step2_completed = FALSE]
             ELSE r
    ELSE r

\* Faulty variant: the split taken per cent of the final amount, as app.py does.
StockNeeded_IgnoresStockConc(final_conc, final_amount, stock_conc) ==
    RDiv(RMul(final_conc, final_amount), Hundred)

\* Faulty variant: the final concentration left out of the product.
StockNeeded_DropsFinalConc(final_conc, final_amount, stock_conc) ==
    RDiv(final_amount, stock_conc)

\* C1V1 = C2V2, so V1 = C2V2/C1 (the caller guards stock_conc # 0).
StockNeeded(final_conc, final_amount, stock_conc) ==
    RDiv(RMul(final_conc, final_amount), stock_conc)

WaterNeeded(final_amount, stock_needed) == RSub(final_amount, stock_needed)

\* Faulty variant: >= for >, so using up exactly the available stock is refused.
Insufficient_RejectsEqual(stock_needed, available_stock) ==
    RGe(stock_needed, available_stock)

\* Faulty variant: the comparison turned round, < for >.
Insufficient_Reversed(stock_needed, available_stock) ==
    RLt(stock_needed, available_stock)

\* "if stock_needed > available_stock"
Insufficient(stock_needed, available_stock) == RGt(stock_needed, available_stock)

\* Tab 2, the "Calculate Final Dilution" button.  An uncaught exception
\* (KeyError on an empty stock_calculations, ZeroDivisionError) ends the run.
FinalCalcStage(r, inp) ==
    IF inp.calc_final_btn
    THEN LET errors == validate_inputs(r.ss.final_amount, r.ss.final_conc,
                                       "Final Dilution", r.ss)
             unit_config == get_unit_config(r.ss)
         IN  IF errors # <<>>
             THEN [r EXCEPT !.ss.step2_completed = FALSE,
                            !.errors = errors,
                            !.outcome = "invalid"]
             ELSE IF "stock_conc" \notin DOMAIN r.ss.stock_calculations
             THEN [r EXCEPT !.outcome = "KeyError", !.stopped = TRUE]
             ELSE IF r.ss.stock_calculations.stock_conc = Zero
             THEN [r EXCEPT !.outcome = "ZeroDivisionError", !.stopped = TRUE]
             ELSE LET stock_conc == r.ss.stock_calculations.stock_conc
                      final_conc == r.ss.final_conc
                      final_amount == r.ss.final_amount
                      stock_needed == StockNeeded(final_conc, final_amount, stock_conc)
                      water_needed == WaterNeeded(final_amount, stock_needed)
                      available_stock == r.ss.stock_calculations.stock_amount
                  IN  IF Insufficient(stock_needed, available_stock)
                      THEN [r EXCEPT !.ss.step2_completed = FALSE,
                                     !.outcome = "insufficient"]
                      ELSE [r EXCEPT !.ss.dilution_calculations =
                                         [stock_needed |-> stock_needed,
                                          water_needed |-> water_needed,
                                          final_amount |-> final_amount,
                                          final_conc |-> final_conc,
                                          unit |-> unit_config.unit,
                                          conc_unit |-> unit_config.conc_unit],
                                     !.ss.step2_completed = TRUE,
                                     !.outcome = "accepted"]
    ELSE r

\* Tab 2: st.stop() unless stage 1 is complete.
Tab2(r, inp) ==
    IF ~r.ss.step1_completed
    THEN [r EXCEPT !.stopped = TRUE]
    ELSE CHOOSE out \in {FinalCalcStage(x, inp) : x \in {FinalInputStage(r, inp)}} : TRUE

\* f"{x:.2f}": x rounded to hundredths (ties to even), as a count of hundredths.
Fmt2(x) ==
    LET num == 100 * x[1]
        den == x[2]
        fl == num \div den
        twice == 2 * (num - fl * den)
    IN  IF twice < den THEN fl
        ELSE IF twice > den THEN fl + 1
        ELSE IF fl % 2 = 0 THEN fl ELSE fl + 1

\* A download link is a sequence (the file name, then what the report
\* shows); the empty string "" is the empty sequence.
NoLink == <<>>

\* d.get(k, default)
Get(d, k, default) == IF k \in DOMAIN d THEN d[k] ELSE default

\* The keys the report generators subscript (d['k']) in each dict.
StockKeys == {"stock_amount", "stock_conc", "emulsion_needed", "water_needed"}
DilutionKeys == {"final_amount", "final_conc", "stock_needed", "water_needed"}

\* The rows both reports take from the two dicts.
ReportRows(stock_info, dilution_info) ==
    << Fmt2(stock_info.stock_amount), Get(stock_info, "unit", "g"),
       Fmt2(stock_info.stock_conc), Get(stock_info, "conc_unit", "% w/w"),
       Fmt2(stock_info.emulsion_needed), Fmt2(stock_info.water_needed),
       Fmt2(dilution_info.final_amount), Fmt2(dilution_info.final_conc),
       Fmt2(dilution_info.stock_needed), Fmt2(dilution_info.water_needed) >>

\* generate_pdf: the body is one try block, so an exception (lib_ok false:
\* the PDF library or the file system failing; a key missing from a dict)
\* is reported and "" returned.  The session is read, never written.
generate_pdf(title, stock_info, dilution_info, summary_df, mode_used, ss, lib_ok) ==
    IF /\ lib_ok
       /\ StockKeys \subseteq DOMAIN stock_info
       /\ DilutionKeys \subseteq DOMAIN dilution_info
    THEN <<"flocculant_report.pdf", title, mode_used, Get(ss, "unit_type", "N/A")>>
             \o ReportRows(stock_info, dilution_info)
    ELSE NoLink

\* generate_excel: likewise one try block; it does not touch the session.
generate_excel(summary_df, stock_info, dilution_info, lib_ok) ==
    IF /\ lib_ok
       /\ StockKeys \subseteq DOMAIN stock_info
       /\ DilutionKeys \subseteq DOMAIN dilution_info
    THEN <<"flocculant_calculations.xlsx">> \o summary_df
             \o ReportRows(stock_info, dilution_info)
    ELSE NoLink

\* Tab 3, the "Value" column of summary_df.
SummaryValues(stock, final, unit_config) ==
    << <<Fmt2(stock.stock_amount), unit_config.unit>>,
       <<Fmt2(stock.stock_conc), unit_config.conc_unit>>,
       <<Fmt2(stock.emulsion_needed), unit_config.unit>>,
       <<Fmt2(stock.water_needed), unit_config.unit>>,
       <<Fmt2(final.final_amount), unit_config.unit>>,
       <<Fmt2(final.final_conc), unit_config.conc_unit>>,
       <<Fmt2(final.stock_needed), unit_config.unit>>,
       <<Fmt2(final.water_needed), unit_config.unit>> >>

\* Faulty variant: a failed generation followed by reset_calculations().
ReportStage_FailureResets(r, inp) ==
    LET stock == r.ss.stock_calculations
        final == r.ss.dilution_calculations
        summary_df == SummaryValues(stock, final, get_unit_config(r.ss))
    IN  IF inp.pdf_btn
        THEN LET pdf_link == generate_pdf("Flocculant Preparation Report", stock,
                                          final, summary_df, r.ss.mode, r.ss,
                                          inp.render_ok)
             IN  IF pdf_link # NoLink
                 THEN [r EXCEPT !.report = pdf_link, !.outcome = "pdf_link"]
                 ELSE [r EXCEPT !.ss = reset_calculations(r.ss),
                                !.report = pdf_link, !.outcome = "pdf_failed"]
        ELSE IF inp.excel_btn
        THEN LET excel_link == generate_excel(summary_df, stock, final, inp.render_ok)
             IN  IF excel_link # NoLink
                 THEN [r EXCEPT !.report = excel_link, !.outcome = "excel_link"]
                 ELSE [r EXCEPT !.ss = reset_calculations(r.ss),
                                !.report = excel_link, !.outcome = "excel_failed"]
        ELSE r

\* Tab 3, the two download buttons: the link is shown when it is not "".
ReportStage(r, inp) ==
    LET stock == r.ss.stock_calculations
        final == r.ss.dilution_calculations
        summary_df == SummaryValues(stock, final, get_unit_config(r.ss))
    IN  IF inp.pdf_btn
        THEN LET pdf_link == generate_pdf("Flocculant Preparation Report", stock,
                                          final, summary_df, r.ss.mode, r.ss,
                                          inp.render_ok)
             IN  [r EXCEPT !.report = pdf_link,
                           !.outcome = IF pdf_link # NoLink
                                       THEN "pdf_link" ELSE "pdf_failed"]
        ELSE IF inp.excel_btn
        THEN LET excel_link == generate_excel(summary_df, stock, final, inp.render_ok)
             IN  [r EXCEPT !.report = excel_link,
                           !.outcome = IF excel_link # NoLink
                                       THEN "excel_link" ELSE "excel_failed"]
        ELSE r

\* Tab 3: st.stop() unless stage 2 is complete; building summary_df
\* subscripts both dicts outside any try block.
Tab3(r, inp) ==
    IF r.stopped \/ ~r.ss.step2_completed
    THEN [r EXCEPT !.stopped = TRUE]
    ELSE IF ~( /\ StockKeys \subseteq DOMAIN r.ss.stock_calculations
               /\ DilutionKeys \subseteq DOMAIN r.ss.dilution_calculations )
    THEN [r EXCEPT !.outcome = "KeyError", !.stopped = TRUE]
    ELSE ReportStage(r, inp)

\* main() below the sidebar: the stages in program order, each applied to
\* the run the one before it leaves (singleton sets, so that each stage is
\* evaluated once).
Body(r, inp) ==
    LET mode_done == {ModeStage(r, inp)}
        unit_done == {UnitStage(x, inp) : x \in mode_done}
        sop_done == {SopStage(x, inp) : x \in unit_done}
        inputs_done == {StockInputStage(x, inp) : x \in sop_done}
        tab1_done == {StockCalcStage(x, inp) : x \in inputs_done}
        tab2_done == {Tab2(x, inp) : x \in tab1_done}
        tab3_done == {Tab3(x, inp) : x \in tab2_done}
    IN  CHOOSE out \in tab3_done : TRUE

\* main(): the sidebar's reset button resets and st.rerun()s, and the run
\* it starts sees no interaction.
main(ss, inp) ==
    IF inp.reset_btn
    THEN LET cleared == reset_calculations(ss)
         IN  [Body(StartRun(cleared), NoInput(cleared, inp.selected_preset))
                 EXCEPT !.outcome = "reset"]
    ELSE Body(StartRun(ss), inp)

----------------------------------------------------------------------------
(* User interactions: each triggers one run of main().                     *)

NoCall == [fn |-> "none"]
NoApp == [run |-> "none"]

\* The two stage flags, as the history keeps them.
Completed(ss) == <<ss.step1_completed, ss.step2_completed>>

NoRun == [op |-> "start", errors |-> <<>>, outcome |-> "none",
          before |-> <<FALSE, FALSE>>, report |-> <<>>]

Run(op, inp) ==
    \E r \in {main(session_state, inp)} :
        /\ session_state' = r.ss
        /\ selected_preset' = IF r.ss.mode = "SOP-Driven" THEN inp.selected_preset ELSE 1
        /\ last' = [op |-> op, errors |-> r.errors, outcome |-> r.outcome,
                    before |-> Completed(session_state), report |-> r.report]
        /\ UNCHANGED <<call, app>>

Idle == NoInput(session_state, selected_preset)

\* Widgets exist only where the previous run rendered them.
Tab2Rendered == session_state.step1_completed
Tab3Rendered == Tab2Rendered /\ session_state.step2_completed

ResetAll == Run("reset_all", [Idle EXCEPT !.reset_btn = TRUE])

\* The selectbox is not rendered in Manual Input mode, so it starts on its
\* first option when the mode becomes SOP-Driven.
ChangeMode ==
    \E m \in Modes \ {session_state.mode} :
        Run("change_mode", [Idle EXCEPT !.new_mode = m, !.selected_preset = 1])

ChangeUnit ==
    \E u \in UnitTypes \ {session_state.unit_type} :
        Run("change_unit", [Idle EXCEPT !.new_unit_type = u])

SelectPreset ==
    /\ session_state.mode = "SOP-Driven"
    /\ \E p \in (1..Len(SOP_PRESETS)) \ {selected_preset} :
           Run("select_preset", [Idle EXCEPT !.selected_preset = p])

ChangeStockAmount ==
    /\ session_state.mode = "Manual Input"
    /\ \E a \in AmountInputs \ {session_state.stock_amount} :
           Run("change_stock_amount", [Idle EXCEPT !.new_amount = a])

ChangeStockConc ==
    /\ session_state.mode = "Manual Input"
    /\ \E c \in ConcInputs \ {session_state.stock_conc} :
           Run("change_stock_conc", [Idle EXCEPT !.new_conc = c])

CalcStock == Run("calc_stock", [Idle EXCEPT !.calc_stock_btn = TRUE])

ChangeFinalAmount ==
    /\ session_state.mode = "Manual Input"
    /\ Tab2Rendered
    /\ \E a \in AmountInputs \ {session_state.final_amount} :
           Run("change_final_amount", [Idle EXCEPT !.new_final_amount = a])

ChangeFinalConc ==
    /\ session_state.mode = "Manual Input"
    /\ Tab2Rendered
    /\ \E c \in ConcInputs \ {session_state.final_conc} :
           Run("change_final_conc", [Idle EXCEPT !.new_final_conc = c])

CalcFinal ==
    /\ Tab2Rendered
    /\ Run("calc_final", [Idle EXCEPT !.calc_final_btn = TRUE])

GeneratePdf ==
    /\ Tab3Rendered
    /\ \E ok \in BOOLEAN :
           Run("generate_pdf", [Idle EXCEPT !.pdf_btn = TRUE, !.render_ok = ok])

GenerateExcel ==
    /\ Tab3Rendered
    /\ \E ok \in BOOLEAN :
           Run("generate_excel", [Idle EXCEPT !.excel_btn = TRUE, !.render_ok = ok])

Init ==
    /\ session_state = init_session_state
    /\ selected_preset = 1
    /\ last = NoRun
    /\ call = NoCall
    /\ app = NoApp

Next ==
    \/ ResetAll
    \/ ChangeMode
    \/ ChangeUnit
    \/ SelectPreset
    \/ ChangeStockAmount
    \/ ChangeStockConc
    \/ CalcStock
    \/ ChangeFinalAmount
    \/ ChangeFinalConc
    \/ CalcFinal
    \/ GeneratePdf
    \/ GenerateExcel

Spec == Init /\ [][Next]_vars

----------------------------------------------------------------------------
(* SpecFn: the functions called directly, on arguments drawn at Init.      *)

\* st.session_state as validate_inputs may find it: without the key
\* 'stock_conc' (before init_session_state), or holding a concentration.
FnSessions ==
    {EmptyDict} \cup {[init_session_state EXCEPT !.stock_conc = c] : c \in ConcInputs}

\* The stock concentration a session holds, <<>> when it holds none.
SessionConc(ss) == IF "stock_conc" \in DOMAIN ss THEN ss.stock_conc ELSE <<>>

\* call.earlier remembers the first call of this run of calls that returned
\* numbers: the function, its concentration argument, the session's stock
\* concentration at that time, and what it returned (<<>> before it).
FnInit ==
    /\ call \in [fn : {"none"}, amount : FnAmounts, concentration : FnConcs,
                 step_name : StepNames, ret : {<<>>}, earlier : {<<>>}]
    /\ session_state \in FnSessions
    /\ selected_preset = 1
    /\ last = NoRun
    /\ app = NoApp

Returns(fn, ret) ==
    /\ call' = [call EXCEPT !.fn = fn, !.ret = ret]
    /\ UNCHANGED <<session_state, selected_preset, last, app>>

\* A call that returns numbers: as Returns, and remembered if it is the first.
ReturnsNumbers(fn, ret) ==
    /\ call' = [call EXCEPT
                   !.fn = fn,
                   !.ret = ret,
                   !.earlier = IF call.earlier = <<>>
                               THEN [fn |-> fn,
                                     concentration |-> call.concentration,
                                     session_conc |-> SessionConc(session_state),
                                     ret |-> ret]
                               ELSE call.earlier]
    /\ UNCHANGED <<session_state, selected_preset, last, app>>

CallCalculateSolution ==
    ReturnsNumbers("calculate_solution",
                   calculate_solution(call.amount, call.concentration))

CallAppCalculateSolution ==
    ReturnsNumbers("app.calculate_solution",
                   app_calculate_solution(call.amount, call.concentration))

CallValidateInputs ==
    Returns("validate_inputs",
            validate_inputs(call.amount, call.concentration, call.step_name,
                            session_state))

\* The dilution formula of the "Calculate Final Dilution" handler, on
\* final_amount = call.amount, final_conc = call.concentration and the
\* session's stock concentration; dividing by 0 raises ZeroDivisionError.
CallDilution ==
    /\ "stock_conc" \in DOMAIN session_state
    /\ IF session_state.stock_conc = Zero
       THEN Returns("dilution", <<"ZeroDivisionError">>)
       ELSE \E stock_needed \in {StockNeeded(call.concentration, call.amount,
                                             session_state.stock_conc)} :
                ReturnsNumbers("dilution",
                               <<stock_needed, WaterNeeded(call.amount, stock_needed)>>)

\* Between two calls the session may have become any other one.
FnSetSession ==
    /\ \E ss \in FnSessions \ {session_state} : session_state' = ss
    /\ call' = [call EXCEPT !.fn = "none", !.ret = <<>>]
    /\ UNCHANGED <<selected_preset, last, app>>

\* The next call may pass another concentration.
FnSetConcentration ==
    /\ \E c \in FnConcs \ {call.concentration} :
           call' = [call EXCEPT !.concentration = c, !.fn = "none", !.ret = <<>>]
    /\ UNCHANGED <<session_state, selected_preset, last, app>>

FnNext ==
    \/ CallCalculateSolution
    \/ CallAppCalculateSolution
    \/ CallValidateInputs
    \/ CallDilution
    \/ FnSetSession
    \/ FnSetConcentration

SpecFn == FnInit /\ [][FnNext]_vars

----------------------------------------------------------------------------
(* SpecApp: app.py.  The script keeps nothing between runs but its         *)
(* widgets; every run recomputes the rest.                                 *)

APP_MIN_STOCK_AMOUNT == Rat(50, 1)
APP_MIN_STOCK_CONC == Rat(1, 10)
APP_MIN_FINAL_AMOUNT == Rat(100, 1)
APP_MIN_FINAL_CONC == Rat(1, 1000)
APP_DEFAULT_FINAL_CONC == Rat(1, 10)

AppModes == {"Weight (g) / % w/w", "Volume (mL) / % v/v"}

AppWidgets ==
    [mode |-> "Weight (g) / % w/w",
     stock_amount |-> APP_MIN_STOCK_AMOUNT,
     stock_conc |-> APP_MIN_STOCK_CONC,
     final_amount |-> APP_MIN_FINAL_AMOUNT,
     final_conc |-> APP_DEFAULT_FINAL_CONC]

\* One run of the script on widget values w: the script's variables at its end.
AppScript(w) ==
    LET unit_default == IF w.mode = "Weight (g) / % w/w" THEN "g" ELSE "mL"
        s1 == app_calculate_solution(w.stock_amount, w.stock_conc)
        emul == s1[1]
        wat == s1[2]
        step1_complete == RGt(w.stock_amount, Zero) /\ RGt(w.stock_conc, Zero)
        s2 == app_calculate_solution(w.final_amount, w.final_conc)
        stock_needed == s2[1]
        water_needed == s2[2]
        step2_complete ==
            step1_complete /\ RGt(w.final_amount, Zero) /\ RGt(w.final_conc, Zero)
    IN  [run |-> "done",
         widgets |-> w,
         emul |-> emul,
         wat |-> wat,
         step1_complete |-> step1_complete,
         step2_complete |-> step2_complete,
         stock_needed |-> IF step1_complete THEN stock_needed ELSE None,
         water_needed |-> IF step1_complete THEN water_needed ELSE None,
         \* st.success(f"Stock Solution: {stock_needed:.2f} ... Water: ...")
         shown |-> IF step1_complete
                   THEN [stock |-> <<Fmt2(stock_needed), unit_default>>,
                         water |-> <<Fmt2(water_needed), unit_default>>]
                   ELSE None,
         \* summary_df rows "Stock Used for Dilution", "Water for Dilution"
         summary |-> IF step2_complete
                     THEN [stock_used |-> <<Fmt2(stock_needed), unit_default>>,
                           water |-> <<Fmt2(water_needed), unit_default>>]
                     ELSE None]

AtLeast(S, min) == {x \in S : RGe(x, min)}

AppInit ==
    /\ app = AppScript(AppWidgets)
    /\ session_state = init_session_state
    /\ selected_preset = 1
    /\ last = NoRun
    /\ call = NoCall

AppRerun(w) ==
    /\ app' = AppScript(w)
    /\ UNCHANGED <<session_state, selected_preset, last, call>>

AppChangeMode ==
    \E m \in AppModes \ {app.widgets.mode} :
        AppRerun([app.widgets EXCEPT !.mode = m])

AppChangeStockAmount ==
    \E a \in AtLeast(AmountInputs, APP_MIN_STOCK_AMOUNT) \ {app.widgets.stock_amount} :
        AppRerun([app.widgets EXCEPT !.stock_amount = a])

AppChangeStockConc ==
    \E c \in AtLeast(ConcInputs, APP_MIN_STOCK_CONC) \ {app.widgets.stock_conc} :
        AppRerun([app.widgets EXCEPT !.stock_conc = c])

\* The step-2 widgets exist only when the last run rendered them.
AppChangeFinalAmount ==
    /\ app.step1_complete
    /\ \E a \in AtLeast(AmountInputs, APP_MIN_FINAL_AMOUNT) \ {app.widgets.final_amount} :
           AppRerun([app.widgets EXCEPT !.final_amount = a])

AppChangeFinalConc ==
    /\ app.step1_complete
    /\ \E c \in AtLeast(ConcInputs, APP_MIN_FINAL_CONC) \ {app.widgets.final_conc} :
           AppRerun([app.widgets EXCEPT !.final_conc = c])

AppNext ==
    \/ AppChangeMode
    \/ AppChangeStockAmount
    \/ AppChangeStockConc
    \/ AppChangeFinalAmount
    \/ AppChangeFinalConc

SpecApp == AppInit /\ [][AppNext]_vars

----------------------------------------------------------------------------
(* Properties.                                                             *)

Session == session_state
StockCalc == session_state.stock_calculations
DilutionCalc == session_state.dilution_calculations
Cleared(ss) ==
    /\ ~ss.step1_completed
    /\ ~ss.step2_completed
    /\ ss.stock_calculations = EmptyDict
    /\ ss.dilution_calculations = EmptyDict

CalledSolution == call.fn \in {"calculate_solution", "app.calculate_solution"}

\* C1: for every amount > 0 and concentration in (0,100), calculate_solution
\* (either variant) returns solute = amount * concentration / 100 and
\* solvent = amount - solute, so that solute + solvent = amount.
C1_SoluteSolventSplit ==
    ( /\ CalledSolution
      /\ RGt(call.amount, Zero)
      /\ RGt(call.concentration, Zero)
      /\ RLt(call.concentration, Hundred) )
    => /\ call.ret[1] = RDiv(RMul(call.amount, call.concentration), Hundred)
       /\ call.ret[2] = RSub(call.amount, call.ret[1])
       /\ RAdd(call.ret[1], call.ret[2]) = call.amount

\* calculate_solution(200, 1.0) has returned (2.0, 198.0).
C1_Witness ==
    /\ call.fn = "calculate_solution"
    /\ call.amount = Rat(200, 1)
    /\ call.concentration = Rat(1, 1)
    /\ call.ret = <<Rat(2, 1), Rat(198, 1)>>

\* C2: when "Calculate Final Dilution" is accepted, the stored result has
\* stock_needed = final_conc * final_amount / stock_conc, with stock_conc
\* the concentration stored by the accepted stage-1 calculation, and
\* water_needed = final_amount - stock_needed, so the two sum to final_amount.
C2_AcceptedDilutionFormula ==
    (last.op = "calc_final" /\ last.outcome = "accepted")
    => /\ Session.step2_completed
       /\ RMul(DilutionCalc.stock_needed, StockCalc.stock_conc)
              = RMul(Session.final_conc, Session.final_amount)
       /\ DilutionCalc.water_needed
              = RSub(Session.final_amount, DilutionCalc.stock_needed)
       /\ RAdd(DilutionCalc.stock_needed, DilutionCalc.water_needed)
              = Session.final_amount
       /\ DilutionCalc.final_amount = Session.final_amount
       /\ DilutionCalc.final_conc = Session.final_conc

\* Stock 1.0 %, final 200 at 0.1 %, 200 available: stock 20, water 180, accepted.
C2_Witness ==
    /\ last.op = "calc_final"
    /\ last.outcome = "accepted"
    /\ StockCalc.stock_conc = Rat(1, 1)
    /\ StockCalc.stock_amount = Rat(200, 1)
    /\ Session.final_amount = Rat(200, 1)
    /\ Session.final_conc = Rat(1, 10)
    /\ DilutionCalc.stock_needed = Rat(20, 1)
    /\ DilutionCalc.water_needed = Rat(180, 1)

\* C3: in app.py the "Stock Solution" amount shown and exported for the
\* final dilution is final_conc * final_amount / stock_conc, stock_conc being
\* the step-1 target concentration, and the water amount is final_amount
\* minus that.
C3_AppDilutionUsesStockConc ==
    (app.run = "done" /\ app.step2_complete)
    => LET w == app.widgets
           stock == RDiv(RMul(w.final_conc, w.final_amount), w.stock_conc)
           water == RSub(w.final_amount, stock)
       IN  /\ app.shown.stock[1] = Fmt2(stock)
           /\ app.shown.water[1] = Fmt2(water)
           /\ app.summary.stock_used[1] = Fmt2(stock)
           /\ app.summary.water[1] = Fmt2(water)

\* C4: "Calculate Final Dilution" with a final concentration >= the stock
\* concentration of the accepted stage-1 result is rejected: the stored
\* dilution result is not replaced and step2_completed is false afterwards.
C4_InvalidDilutionRejected ==
    [][ ( /\ last'.op = "calc_final"
          /\ "stock_conc" \in DOMAIN StockCalc
          /\ RGe(Session.final_conc, StockCalc.stock_conc) )
        => /\ last'.outcome = "invalid"
           /\ session_state'.dilution_calculations = DilutionCalc
           /\ ~session_state'.step2_completed ]_vars

\* A final concentration not below the stock's has been rejected while an
\* earlier dilution result was stored.
C4_Witness ==
    /\ last.op = "calc_final"
    /\ last.outcome = "invalid"
    /\ RGe(Session.final_conc, StockCalc.stock_conc)
    /\ RGt(Session.final_conc, Zero)
    /\ RLt(Session.final_conc, Hundred)
    /\ DilutionCalc # EmptyDict
    /\ ~Session.step2_completed

\* C5: "Calculate Final Dilution" with otherwise valid inputs: if the stock
\* needed exceeds the stage-1 stock_amount, step2_completed is false
\* afterwards and dilution_calculations is unchanged; if it is less than or
\* equal to it, the result is accepted and step2_completed becomes true.
C5_SufficiencyCheck ==
    [][ ( /\ last'.op = "calc_final"
          /\ last'.errors = <<>>
          /\ "stock_conc" \in DOMAIN StockCalc
          /\ RGt(StockCalc.stock_conc, Zero) )
        => IF RGt(RMul(Session.final_conc, Session.final_amount),
                  RMul(StockCalc.stock_amount, StockCalc.stock_conc))
           THEN /\ ~session_state'.step2_completed
                /\ session_state'.dilution_calculations = DilutionCalc
           ELSE /\ session_state'.step2_completed
                /\ last'.outcome = "accepted"
                /\ RLe(session_state'.dilution_calculations.stock_needed,
                       StockCalc.stock_amount) ]_vars

\* Needed 25, available 20: insufficient, shortfall 5, session not advanced.
C5_Witness ==
    /\ last.op = "calc_final"
    /\ last.outcome = "insufficient"
    /\ StockCalc.stock_amount = Rat(20, 1)
    /\ StockNeeded(Session.final_conc, Session.final_amount, StockCalc.stock_conc)
           = Rat(25, 1)
    /\ ~Session.step2_completed

\* C6: calculate_solution (either variant) called with amount <= 0 or
\* concentration <= 0 returns the zeroed result (0.0, 0.0).
C6_ZeroedResult ==
    ( /\ CalledSolution
      /\ (RLe(call.amount, Zero) \/ RLe(call.concentration, Zero)) )
    => call.ret = <<Zero, Zero>>

\* The five rules on the called arguments, in the order of the spec.
Rules ==
    << [violated |-> RLe(call.amount, Zero),
        msg |-> MsgAmountPositive(call.step_name)],
       [violated |-> RLe(call.concentration, Zero),
        msg |-> MsgConcPositive(call.step_name)],
       [violated |-> ~RLt(call.concentration, Hundred),
        msg |-> MsgConcBelow100(call.step_name)],
       [violated |-> /\ call.step_name = "Final Dilution"
                     /\ session_state # EmptyDict
                     /\ ~RLt(call.concentration, session_state.stock_conc),
        msg |-> MsgFinalBelowStock],
       [violated |-> ~RLe(call.amount, Rat(MAX_AMOUNT, 1)),
        msg |-> MsgAmountTooLarge(call.step_name)] >>

RuleOf(m) == CHOOSE i \in DOMAIN Rules : Rules[i].msg = m

\* C7: validate_inputs checks all five rules without short-circuiting: the
\* returned list holds a message for each violated rule, in rule order.
C7_AllViolationsInOrder ==
    call.fn = "validate_inputs"
    => /\ \A i \in DOMAIN Rules :
              Rules[i].violated => \E k \in DOMAIN call.ret : call.ret[k] = Rules[i].msg
       /\ \A k1, k2 \in DOMAIN call.ret :
              k1 < k2 => RuleOf(call.ret[k1]) < RuleOf(call.ret[k2])

\* Concentration exactly 100 in the final-dilution stage with an oversized
\* amount: three rules violated, three messages.
C7_Witness ==
    /\ call.fn = "validate_inputs"
    /\ call.concentration = Hundred
    /\ call.step_name = "Final Dilution"
    /\ call.ret = <<MsgConcBelow100("Final Dilution"), MsgFinalBelowStock,
                    MsgAmountTooLarge("Final Dilution")>>

\* C8: validate_inputs returns a message only for a rule the inputs violate,
\* and each at most once: one violated rule gives one message, none gives
\* the empty list.
C8_NoSpuriousViolation ==
    call.fn = "validate_inputs"
    => /\ \A k \in DOMAIN call.ret :
              \E i \in DOMAIN Rules : Rules[i].violated /\ Rules[i].msg = call.ret[k]
       /\ Len(call.ret) = Cardinality({i \in DOMAIN Rules : Rules[i].violated})

\* validate_inputs(-5, 1.0, "Stock Solution") returned the amount message only.
C8_Witness ==
    /\ call.fn = "validate_inputs"
    /\ call.amount = Rat(-5, 1)
    /\ call.concentration = Rat(1, 1)
    /\ call.step_name = "Stock Solution"
    /\ call.ret = <<MsgAmountPositive("Stock Solution")>>

\* C9: a non-empty violation list blocks acceptance: after "Calculate Stock
\* Solution" (resp. "Calculate Final Dilution") with at least one violation,
\* step1_completed (resp. step2_completed) is false and stock_calculations
\* (resp. dilution_calculations) is not replaced.
C9_ViolationsBlockAcceptance ==
    [][ /\ (last'.op = "calc_stock" /\ last'.errors # <<>>)
            => /\ ~session_state'.step1_completed
               /\ session_state'.stock_calculations = StockCalc
        /\ (last'.op = "calc_final" /\ last'.errors # <<>>)
            => /\ ~session_state'.step2_completed
               /\ session_state'.dilution_calculations = DilutionCalc ]_vars

\* A final amount of 0 has been refused while an earlier dilution result
\* was stored.
C9_Witness ==
    /\ last.op = "calc_final"
    /\ MsgAmountPositive("Final Dilution") \in {last.errors[k] : k \in DOMAIN last.errors}
    /\ DilutionCalc # EmptyDict
    /\ ~Session.step2_completed

\* C10: immediately after the preparation mode or the unit type changes,
\* step1_completed and step2_completed are false and stock_calculations and
\* dilution_calculations are empty, whatever the session held before.
C10_ResetOnModeOrUnitChange ==
    [][ ( \/ session_state'.mode # Session.mode
          \/ session_state'.unit_type # Session.unit_type )
        => Cleared(session_state') ]_vars

\* The unit system has just been changed on a session with both stages
\* complete, and the session is empty.
C10_Witness ==
    /\ last.op = "change_unit"
    /\ last.before = <<TRUE, TRUE>>
    /\ Session.unit_type = "Volume (mL) / % v/v"
    /\ Cleared(Session)

ReportFailed == {"pdf_failed", "excel_failed"}
ReportMade == {"pdf_link", "excel_link"}

\* C11: generating the PDF or the Excel report, whether it yields a link or
\* fails and returns "", leaves step1_completed, step2_completed,
\* stock_calculations and dilution_calculations as they were, so the report
\* tab is rendered again and the generation can be retried.
C11_ReportsKeepSession ==
    [][ last'.op \in {"generate_pdf", "generate_excel"}
        => /\ last'.outcome \in ReportFailed \cup ReportMade
           /\ (last'.outcome \in ReportFailed) <=> (last'.report = NoLink)
           /\ session_state'.step1_completed = Session.step1_completed
           /\ session_state'.step2_completed = Session.step2_completed
           /\ session_state'.stock_calculations = StockCalc
           /\ session_state'.dilution_calculations = DilutionCalc
           /\ session_state'.step1_completed
           /\ session_state'.step2_completed ]_vars

\* The Excel generation has failed and both stages are still complete, with
\* their results stored.
C11_Witness ==
    /\ last.op = "generate_excel"
    /\ last.outcome = "excel_failed"
    /\ last.report = NoLink
    /\ last.before = <<TRUE, TRUE>>
    /\ Session.step1_completed
    /\ Session.step2_completed
    /\ StockKeys \subseteq DOMAIN StockCalc
    /\ DilutionKeys \subseteq DOMAIN DilutionCalc

\* C12: in every reachable state with step1_completed true,
\* stock_calculations holds stock_amount in (0, 10000], stock_conc in
\* (0, 100), emulsion_needed = stock_amount * stock_conc / 100 >= 0,
\* water_needed >= 0 and emulsion_needed + water_needed = stock_amount.
C12_StockResultInRange ==
    Session.step1_completed
    => /\ StockKeys \subseteq DOMAIN StockCalc
       /\ RGt(StockCalc.stock_amount, Zero)
       /\ RLe(StockCalc.stock_amount, Rat(MAX_AMOUNT, 1))
       /\ RGt(StockCalc.stock_conc, Zero)
       /\ RLt(StockCalc.stock_conc, Hundred)
       /\ StockCalc.emulsion_needed
              = RDiv(RMul(StockCalc.stock_amount, StockCalc.stock_conc), Hundred)
       /\ RGe(StockCalc.emulsion_needed, Zero)
       /\ RGe(StockCalc.water_needed, Zero)
       /\ RAdd(StockCalc.emulsion_needed, StockCalc.water_needed)
              = StockCalc.stock_amount

\* Stage 1 is complete for 20 at 0.5 %: emulsion 0.1, water 19.9.
C12_Witness ==
    /\ Session.step1_completed
    /\ last.op = "calc_stock"
    /\ StockCalc.stock_amount = Rat(20, 1)
    /\ StockCalc.stock_conc = Rat(1, 2)
    /\ StockCalc.emulsion_needed = Rat(1, 10)
    /\ StockCalc.water_needed = Rat(199, 10)

\* C13: in every reachable state with step2_completed true, the stored
\* dilution has stock_needed >= 0, water_needed >= 0 and stock_needed not
\* above the stock_amount of the stored stage-1 result.
C13_DilutionResultInRange ==
    Session.step2_completed
    => /\ DilutionKeys \subseteq DOMAIN DilutionCalc
       /\ "stock_amount" \in DOMAIN StockCalc
       /\ RGe(DilutionCalc.stock_needed, Zero)
       /\ RGe(DilutionCalc.water_needed, Zero)
       /\ RLe(DilutionCalc.stock_needed, StockCalc.stock_amount)

\* Stage 2 is complete and uses up the stock exactly: 20 prepared at 1 %,
\* 200 wanted at 0.1 %.
C13_Witness ==
    /\ Session.step2_completed
    /\ StockCalc.stock_amount = Rat(20, 1)
    /\ DilutionCalc.stock_needed = Rat(20, 1)
    /\ DilutionCalc.water_needed = Rat(180, 1)

Crashes == {"KeyError", "ZeroDivisionError"}

\* C14: no sequence of interactions crashes the dilution step: whenever
\* "Calculate Final Dilution" can be pressed (tab 2 is rendered past its
\* st.stop()), stock_calculations holds stock_conc and stock_amount and
\* stock_conc > 0, so the division is defined; a run of the button ends
\* with the calculation accepted or not accepted, never with an exception.
C14_DilutionNeverCrashes ==
    /\ last.outcome \notin Crashes
    /\ Tab2Rendered
           => /\ {"stock_conc", "stock_amount"} \subseteq DOMAIN StockCalc
              /\ RGt(StockCalc.stock_conc, Zero)
    /\ last.op = "calc_final"
           => /\ last.outcome \in {"invalid", "insufficient", "accepted"}
              /\ {"stock_conc", "stock_amount"} \subseteq DOMAIN StockCalc
              /\ RGt(StockCalc.stock_conc, Zero)

\* The division has been made, by the smallest stock concentration that
\* leaves room for a final one: 0.5 %.
C14_Witness ==
    /\ last.op = "calc_final"
    /\ last.errors = <<>>
    /\ last.outcome = "accepted"
    /\ StockCalc.stock_conc = Rat(1, 2)
    /\ RMul(DilutionCalc.stock_needed, Rat(1, 2))
           = RMul(Session.final_conc, Session.final_amount)

SolutionFns == {"calculate_solution", "app.calculate_solution"}

C16_DilutionMonotone ==
    ( /\ call.fn = "dilution"
      /\ Len(call.ret) = 2
      /\ call.earlier.fn = "dilution"
      /\ call.earlier.session_conc = session_state.stock_conc
      /\ RGt(session_state.stock_conc, Zero)
      /\ RGt(call.amount, Zero) )
    => /\ RLt(call.earlier.concentration, call.concentration)
              => /\ RLt(call.earlier.ret[1], call.ret[1])
                 /\ RGt(call.earlier.ret[2], call.ret[2])
       /\ RGt(call.earlier.concentration, call.concentration)
              => /\ RGt(call.earlier.ret[1], call.ret[1])
                 /\ RLt(call.earlier.ret[2], call.ret[2])

\* From a 1 % stock, 200 at 0.1 % took 20 of stock and 180 of water; 200 at
\* 0.5 % takes 100 and 100.
C16_Witness ==
    /\ call.fn = "dilution"
    /\ call.amount = Rat(200, 1)
    /\ session_state.stock_conc = Rat(1, 1)
    /\ call.earlier.fn = "dilution"
    /\ call.earlier.session_conc = Rat(1, 1)
    /\ call.earlier.concentration = Rat(1, 10)
    /\ call.earlier.ret = <<Rat(20, 1), Rat(180, 1)>>
    /\ call.concentration = Rat(1, 2)
    /\ call.ret = <<Rat(100, 1), Rat(100, 1)>>

\* C17: step2_completed implies step1_completed in every reachable state:
\* no sequence of interactions, a stage-1 recalculation that fails
\* validation included, leaves stage 2 complete while stage 1 is not.
C17_Step2ImpliesStep1 ==
    /\ Session.step2_completed => Session.step1_completed
    /\ (last.op = "calc_stock" /\ last.outcome = "invalid")
           => ~Session.step2_completed

\* "Calculate Stock Solution" has been pressed again on a session with both
\* stages complete, and both still are.
C17_Witness ==
    /\ last.op = "calc_stock"
    /\ last.before = <<TRUE, TRUE>>
    /\ Session.step1_completed
    /\ Session.step2_completed

\* C18: stored results are never stale.  With step1_completed true,
\* stock_calculations holds the session's current stock_amount and
\* stock_conc; with step2_completed true, dilution_calculations holds the
\* session's current final_amount and final_conc, and its stock_needed is
\* final_conc * final_amount / stock_calculations.stock_conc.
C18_ResultsNotStale ==
    /\ Session.step1_completed
           => /\ StockCalc.stock_amount = Session.stock_amount
              /\ StockCalc.stock_conc = Session.stock_conc
    /\ Session.step2_completed
           => /\ DilutionCalc.final_amount = Session.final_amount
              /\ DilutionCalc.final_conc = Session.final_conc
              /\ DilutionCalc.stock_needed
                     = RDiv(RMul(Session.final_conc, Session.final_amount),
                            StockCalc.stock_conc)

\* Both stages complete on edited inputs: stock 200 at 1 %, final 20 at 0.5 %.
C18_Witness ==
    /\ Session.step1_completed
    /\ Session.step2_completed
    /\ Session.stock_amount = Rat(200, 1)
    /\ StockCalc.stock_amount = Rat(200, 1)
    /\ Session.final_amount = Rat(20, 1)
    /\ Session.final_conc = Rat(1, 2)
    /\ DilutionCalc.final_amount = Rat(20, 1)
    /\ DilutionCalc.final_conc = Rat(1, 2)
    /\ DilutionCalc.stock_needed = Rat(10, 1)

\* C19: a run that changes final_amount or final_conc (Manual Input mode)
\* clears step2_completed and nothing else: step1_completed,
\* stock_calculations, stock_amount and stock_conc are unchanged; a run that
\* changes stock_amount or stock_conc, by hand or through an SOP preset,
\* resets both stages: both flags false and both stored results empty.
C19_InputChangeFrames ==
    [][ /\ ( \/ session_state'.final_amount # Session.final_amount
             \/ session_state'.final_conc # Session.final_conc )
           => /\ Session.mode = "Manual Input"
              /\ ~session_state'.step2_completed
              /\ session_state'
                     = [session_state EXCEPT
                           !.final_amount = session_state'.final_amount,
                           !.final_conc = session_state'.final_conc,
                           !.step2_completed = FALSE]
        /\ ( \/ session_state'.stock_amount # Session.stock_amount
             \/ session_state'.stock_conc # Session.stock_conc )
           => Cleared(session_state') ]_vars

\* The final concentration has just been changed on a session with both
\* stages complete: stage 1 and both stored results are kept, stage 2 is not.
C19_Witness ==
    /\ last.op = "change_final_conc"
    /\ last.before = <<TRUE, TRUE>>
    /\ Session.step1_completed
    /\ ~Session.step2_completed
    /\ StockKeys \subseteq DOMAIN StockCalc
    /\ DilutionKeys \subseteq DOMAIN DilutionCalc
    /\ DilutionCalc.final_conc # Session.final_conc

====
